---- MODULE Spec2Model ----
(***************************************************************************)
(* Shanghai take-home pay calculator: the contribution calculators, the    *)
(* progressive tax function and the cumulative withholding engine of       *)
(* Shanghai_take-home_pay_calculator.py.                                   *)
(*                                                                         *)
(* Numbers.  The program computes in Python floats.  The model computes    *)
(* the same expressions exactly, in decimal fixed point: an amount of      *)
(* money is a record [y, f] standing for y + f/Frac yuan with 0 <= f <     *)
(* Frac.  Salaries, bases and deductions are whole yuan, contribution and  *)
(* tax rates are whole per-mille values, so every product the program      *)
(* forms is a multiple of 1/Frac yuan and nothing is rounded.  Two limbs   *)
(* are used because a year's amounts in units of 1/Frac yuan do not fit    *)
(* TLC's 32-bit integers.  Rounding of the last binary digit of a float is *)
(* not modelled.                                                           *)
(***************************************************************************)
EXTENDS Integers, Sequences, FiniteSets, TLC

VARIABLES cfg, call, chain

vars == <<cfg, call, chain>>

----------------------------------------------------------------------------
(* Exact decimal amounts *)

Frac == 1000 * 20

Norm(y, f) == [y |-> y + (f \div Frac), f |-> f % Frac]

D(n) == [y |-> n, f |-> 0]

Zero == D(0)

\* y yuan and fen hundredths
Yuan(y, fen) == [y |-> y, f |-> fen * (Frac \div 100)]

Add(a, b) == Norm(a.y + b.y, a.f + b.f)

Sub(a, b) == Norm(a.y - b.y, a.f - b.f)

\* a * n for an integer n
Times(a, n) == Norm(a.y * n, a.f * n)

\* a * (permille / 1000)
Rate(a, permille) ==
    LET p == a.y * permille
    IN  Norm(p \div 1000, (p % 1000) * (Frac \div 1000) + (a.f * permille) \div 1000)

Le(a, b) == a.y < b.y \/ (a.y = b.y /\ a.f <= b.f)

DMax(a, b) == IF Le(a, b) THEN b ELSE a

IMax(a, b) == IF a <= b THEN b ELSE a

IMin(a, b) == IF a <= b THEN a ELSE b

\* Optional[...] = None is the empty tuple, a given value v is <<v>>
None == <<>>

Some(v) == <<v>>

----------------------------------------------------------------------------
(* Configuration *)

\* rates in per mille: 0.08 is 80, 0.005 is 5
ShanghaiConfig(brackets) ==
    [ si_floor |-> 7384, si_cap |-> 36921,
      hf_floor |-> 2690, hf_cap |-> 36921,
      pension_rate_emp |-> 80,
      medical_rate_emp |-> 20,
      unemployment_rate_emp |-> 5,
      default_hf_rate_emp |-> 70,
      standard_deduction_monthly |-> 5000,
      brackets |-> brackets ]

\* float("inf") as the bound of the last bracket: inf |-> TRUE
default_config ==
    ShanghaiConfig(<<
        [up_to |->  36000, inf |-> FALSE, rate |->  30, quick |->      0],
        [up_to |-> 144000, inf |-> FALSE, rate |-> 100, quick |->   2520],
        [up_to |-> 300000, inf |-> FALSE, rate |-> 200, quick |->  16920],
        [up_to |-> 420000, inf |-> FALSE, rate |-> 250, quick |->  31920],
        [up_to |-> 660000, inf |-> FALSE, rate |-> 300, quick |->  52920],
        [up_to |-> 960000, inf |-> FALSE, rate |-> 350, quick |->  85920],
        [up_to |->      0, inf |-> TRUE,  rate |-> 450, quick |-> 181920] >>)

----------------------------------------------------------------------------
(* Contribution calculators *)

\* variant: min and max exchanged
clamp_swapped(x, lo, hi) == IMin(lo, IMax(hi, x))

clamp(x, lo, hi) == IMax(lo, IMin(hi, x))

calc_employee_social(gross, c, si_base) ==
    LET base == clamp(IF si_base # None THEN si_base[1] ELSE gross, c.si_floor, c.si_cap)
        pension == Rate(D(base), c.pension_rate_emp)
        medical == Rate(D(base), c.medical_rate_emp)
        unemployment == Rate(D(base), c.unemployment_rate_emp)
    IN  [ base |-> base,
          pension |-> pension,
          medical |-> medical,
          unemployment |-> unemployment,
          total |-> Add(Add(pension, medical), unemployment) ]

calc_housing_fund(gross, c, hf_rate, hf_base) ==
    LET rate == IF hf_rate = None THEN c.default_hf_rate_emp ELSE hf_rate[1]
        base == clamp(IF hf_base # None THEN hf_base[1] ELSE gross, c.hf_floor, c.hf_cap)
    IN  [rate |-> rate, base |-> base, amount |-> Rate(D(base), rate)]

----------------------------------------------------------------------------
(* Progressive tax function *)

\* t <= b["up_to"]
within_bracket(t, b) == b.inf \/ Le(t, D(b.up_to))

\* variant: the quick deduction added instead of subtracted
bracket_tax_added(t, b) == Add(Rate(t, b.rate), D(b.quick))

\* t * b["rate"] - b["quick"]
bracket_tax(t, b) == Sub(Rate(t, b.rate), D(b.quick))

RECURSIVE scan_brackets(_, _, _)
scan_brackets(t, brackets, i) ==
    IF i > Len(brackets)
    THEN Sub(Rate(t, 450), D(181920))
    ELSE IF within_bracket(t, brackets[i])
         THEN bracket_tax(t, brackets[i])
         ELSE scan_brackets(t, brackets, i + 1)

\* variant: the income is not clamped to 0 before the bracket lookup
tax_on_cumulative_taxable_unclamped(cum_taxable, c) ==
    scan_brackets(cum_taxable, c.brackets, 1)

tax_on_cumulative_taxable(cum_taxable, c) ==
    LET t == DMax(Zero, cum_taxable)
    IN  scan_brackets(t, c.brackets, 1)

----------------------------------------------------------------------------
(* Cumulative withholding engine *)

\* Python's sum(): a left fold from 0
RECURSIVE sum(_)
sum(s) ==
    IF s = <<>> THEN Zero ELSE Add(sum(SubSeq(s, 1, Len(s) - 1)), s[Len(s)])

NoResult == <<>>

\* variant: the length compared with month_index
length_mismatch_off_by_one(cumulative_prev_pay, month_index) ==
    Len(cumulative_prev_pay) # month_index

\* len(cumulative_prev_pay) != month_index - 1
length_mismatch(cumulative_prev_pay, month_index) ==
    Len(cumulative_prev_pay) # month_index - 1

\* variant: the current month counted among the earlier ones
prev_months_off_by_one(month_index) == IMax(0, month_index)

\* prev_m: the earlier months the flat assumption replays
prev_months(month_index) == IMax(0, month_index - 1)

\* variant: the deduction of one month only
cum_deduction_one_month(monthly, month_index) == D(monthly)

\* a monthly deduction accumulated over the months so far
cum_deduction(monthly, month_index) == D(monthly * month_index)

\* year-to-date taxable income, not clamped; a: the call's arguments
cumulative_taxable(a, c) ==
    LET gross_salary == a.gross_salary
        month_index == a.month_index
        si == calc_employee_social(gross_salary, c, a.si_base)
        hf == calc_housing_fund(gross_salary, c, a.hf_rate, a.hf_base)
        flat == a.cumulative_prev_pay = None
        cumulative_prev_pay == IF flat THEN <<>> ELSE a.cumulative_prev_pay[1]
        prev_m == prev_months(month_index)
        cum_income ==
            IF flat
            THEN Times(D(gross_salary), month_index)
            ELSE Add(sum([i \in 1..Len(cumulative_prev_pay) |-> D(cumulative_prev_pay[i])]),
                     D(gross_salary))
        prev_si_total ==
            IF flat
            THEN Times(calc_employee_social(gross_salary, c, a.si_base).total, prev_m)
            ELSE sum([i \in 1..Len(cumulative_prev_pay) |->
                        calc_employee_social(cumulative_prev_pay[i], c, a.si_base).total])
        prev_hf_total ==
            IF flat
            THEN Times(calc_housing_fund(gross_salary, c, a.hf_rate, a.hf_base).amount, prev_m)
            ELSE sum([i \in 1..Len(cumulative_prev_pay) |->
                        calc_housing_fund(cumulative_prev_pay[i], c, a.hf_rate, a.hf_base).amount])
        cum_si == Add(prev_si_total, si.total)
        cum_hf == Add(prev_hf_total, hf.amount)
        cum_standard == cum_deduction(c.standard_deduction_monthly, month_index)
        cum_special == cum_deduction(a.special_deductions_monthly, month_index)
    IN  Sub(Sub(Sub(Sub(cum_income, cum_si), cum_hf), cum_standard), cum_special)

\* variant: no floor at zero
withheld_this_month_unfloored(cum_tax_payable, prev_withheld_tax) ==
    Sub(cum_tax_payable, prev_withheld_tax)

\* variant: the operands of the subtraction exchanged
withheld_this_month_reversed(cum_tax_payable, prev_withheld_tax) ==
    DMax(Zero, Sub(prev_withheld_tax, cum_tax_payable))

\* variant: the tax already withheld is not subtracted
withheld_this_month_whole(cum_tax_payable, prev_withheld_tax) ==
    DMax(Zero, cum_tax_payable)

\* tax_this_month
withheld_this_month(cum_tax_payable, prev_withheld_tax) ==
    DMax(Zero, Sub(cum_tax_payable, prev_withheld_tax))

\* variant: the housing fund is not taken off
net_pay_without_hf(gross_salary, si_total, hf_amount, tax_this_month) ==
    Sub(Sub(D(gross_salary), si_total), tax_this_month)

\* takehome
net_pay(gross_salary, si_total, hf_amount, tax_this_month) ==
    Sub(Sub(Sub(D(gross_salary), si_total), hf_amount), tax_this_month)

\* a: the call's arguments; c: the configuration (cfg or default_config())
takehome_shanghai(a, c) ==
    LET gross_salary == a.gross_salary
        month_index == a.month_index
        si == calc_employee_social(gross_salary, c, a.si_base)
        hf == calc_housing_fund(gross_salary, c, a.hf_rate, a.hf_base)
        cum_taxable == cumulative_taxable(a, c)
        cum_tax_payable == tax_on_cumulative_taxable(cum_taxable, c)
        tax_this_month == withheld_this_month(cum_tax_payable, a.prev_withheld_tax)
        takehome == net_pay(gross_salary, si.total, hf.amount, tax_this_month)
    IN  IF /\ a.cumulative_prev_pay # None
           /\ length_mismatch(a.cumulative_prev_pay[1], month_index)
        THEN [status |-> "ValueError", value |-> NoResult]
        ELSE [status |-> "ok",
              value |->
                [ month_index |-> month_index,
                  gross_salary |-> D(gross_salary),
                  take_home |-> takehome,
                  tax_this_month |-> tax_this_month,
                  cumulative_tax_payable |-> cum_tax_payable,
                  pre_tax_deductions_this_month |-> Add(si.total, hf.amount),
                  social_insurance |-> si,
                  housing_fund |-> hf,
                  cumulative_taxable_income |-> DMax(Zero, cum_taxable),
                  assumptions |->
                    [ standard_deduction_monthly |-> c.standard_deduction_monthly,
                      special_deductions_monthly |-> a.special_deductions_monthly,
                      si_base_used_this_month |-> si.base,
                      hf_base_used_this_month |-> hf.base ] ]]

\* the keyword arguments left at their defaults
default_args(gross_salary, month_index) ==
    [ gross_salary |-> gross_salary,
      month_index |-> month_index,
      special_deductions_monthly |-> 0,
      si_base |-> None,
      hf_rate |-> None,
      hf_base |-> None,
      cumulative_prev_pay |-> None,
      prev_withheld_tax |-> Zero ]

----------------------------------------------------------------------------
(* Inputs *)

MonthsInYear == 12

\* longest cumulative_prev_pay list handed to a single call
MaxPrevLen == 2

\* months of a chained run
MaxChainMonths == 7

\* whole-yuan monthly salaries: negative, zero, at the housing-fund floor,
\* at the social-insurance floor, in range, at the cap, above the cap
Salaries == {-1000, 0, 2690, 7384, 30000, 36921, 125000}

\* the permissive core takes month indexes outside 1..12 as well
MonthIndexes == 0 .. (MonthsInYear + 1)

SiBases == {None, Some(5000), Some(40000)}

HfRates == {None, Some(70), Some(120)}

HfBases == {None, Some(1000)}

SpecialDeductions == {0, 1500}

PrevPays == {2000, 30000}

PrevPayLists == UNION {[1..n -> PrevPays] : n \in 0..MaxPrevLen}

PrevWithheld == {D(-100), Zero, Yuan(592, 50), D(1000000)}

FiniteBounds(c) == {c.brackets[i].up_to : i \in {j \in 1..Len(c.brackets) : ~c.brackets[j].inf}}

TaxableIncomes(c) ==
    {D(n) : n \in {-19750, -1, 0, 1, 19750, 39500, 1500000}}
    \cup {D(u + d) : u \in FiniteBounds(c), d \in {-1, 0, 1}}
    \cup {[y |-> y, f |-> f] : y \in {-1, 0, 13786, 36000, 959999}, f \in {Frac \div 200, Frac \div 2}}

ChainSalaries == {0, 8000, 30000, 200000}

----------------------------------------------------------------------------
(* State: the configuration, one call of a calculator with its arguments   *)
(* and outcome (the calculators keep nothing between calls, so a behaviour *)
(* is one call), and the results of a chained run month by month.          *)

NoCall == [fn |-> "none", args |-> <<>>, out |-> <<>>]

Init ==
    /\ cfg = default_config
    /\ call = NoCall
    /\ chain = <<>>

CallSocial ==
    /\ call = NoCall
    /\ \E gross \in Salaries, si_base \in SiBases :
        /\ call' = [ fn |-> "calc_employee_social",
                     args |-> [gross |-> gross, si_base |-> si_base],
                     out |-> calc_employee_social(gross, cfg, si_base) ]
        /\ UNCHANGED <<cfg, chain>>

CallHousing ==
    /\ call = NoCall
    /\ \E gross \in Salaries, hf_rate \in HfRates, hf_base \in HfBases :
        /\ call' = [ fn |-> "calc_housing_fund",
                     args |-> [gross |-> gross, hf_rate |-> hf_rate, hf_base |-> hf_base],
                     out |-> calc_housing_fund(gross, cfg, hf_rate, hf_base) ]
        /\ UNCHANGED <<cfg, chain>>

CallTax ==
    /\ call = NoCall
    /\ \E cum_taxable \in TaxableIncomes(cfg) :
        /\ call' = [ fn |-> "_tax_on_cumulative_taxable",
                     args |-> [cum_taxable |-> cum_taxable],
                     out |-> tax_on_cumulative_taxable(cum_taxable, cfg) ]
        /\ UNCHANGED <<cfg, chain>>

TakehomeArgs ==
    [ gross_salary : Salaries,
      month_index : MonthIndexes,
      special_deductions_monthly : SpecialDeductions,
      si_base : SiBases,
      hf_rate : HfRates,
      hf_base : HfBases,
      cumulative_prev_pay : {None} \cup {Some(l) : l \in PrevPayLists},
      prev_withheld_tax : PrevWithheld ]

CallTakehome ==
    /\ call = NoCall
    /\ \E a \in TakehomeArgs :
        /\ call' = [fn |-> "takehome_shanghai", args |-> a, out |-> takehome_shanghai(a, cfg)]
        /\ UNCHANGED <<cfg, chain>>

Next == CallSocial \/ CallHousing \/ CallTax \/ CallTakehome

Spec == Init /\ [][Next]_vars

----------------------------------------------------------------------------
(* Chained run: the caller computes months 1, 2, ... of one year; the call *)
(* for month k gets the earlier salaries as cumulative_prev_pay and the    *)
(* previous result's cumulative_tax_payable as prev_withheld_tax.          *)

chain_args(gross_salary) ==
    LET k == Len(chain) + 1
    IN  [ default_args(gross_salary, k) EXCEPT
            !.cumulative_prev_pay = Some([i \in 1..Len(chain) |-> chain[i].gross_salary.y]),
            !.prev_withheld_tax =
                IF chain = <<>> THEN Zero ELSE chain[Len(chain)].cumulative_tax_payable ]

ChainMonth ==
    \E gross_salary \in ChainSalaries :
        /\ Len(chain) < MaxChainMonths
        /\ Len(chain) < MonthsInYear
        /\ chain' = Append(chain, takehome_shanghai(chain_args(gross_salary), cfg).value)
        /\ UNCHANGED <<cfg, call>>

NextChain == ChainMonth

SpecChain == Init /\ [][NextChain]_vars

----------------------------------------------------------------------------
(* Properties of a single call, checked under Spec *)

Returned == call.fn = "takehome_shanghai" /\ call.out.status = "ok"

\* C1: for month_index >= 1, takehome_shanghai raises ValueError exactly when
\* cumulative_prev_pay is given (the empty list included) and its length
\* differs from month_index - 1; a call that raises returns no result, and a
\* call with the list omitted or of length month_index - 1 returns one.
C1_LengthValidation ==
    (call.fn = "takehome_shanghai" /\ call.args.month_index >= 1) =>
        LET given == call.args.cumulative_prev_pay # None
            wrong == given /\ Len(call.args.cumulative_prev_pay[1]) # call.args.month_index - 1
        IN  /\ (call.out.status = "ValueError") <=> wrong
            /\ wrong => call.out.value = NoResult
            /\ ~wrong => (call.out.status = "ok" /\ call.out.value # NoResult)

\* the empty list given for month 2 raises
C1_Witness ==
    /\ call.fn = "takehome_shanghai"
    /\ call.args.month_index = 2
    /\ call.args.cumulative_prev_pay = Some(<<>>)
    /\ call.out.status = "ValueError"

\* C2: every call of takehome_shanghai that returns has tax_this_month >= 0,
\* whatever prev_withheld_tax (larger than the cumulative tax payable, or
\* negative), salary, month_index and overrides.
C2_MonthlyTaxNonNegative ==
    Returned => Le(Zero, call.out.value.tax_this_month)

\* more was withheld before than is payable to date, and the month's tax is 0
C2_Witness ==
    /\ Returned
    /\ Le(Zero, call.out.value.cumulative_tax_payable)
    /\ call.out.value.cumulative_tax_payable # Zero
    /\ ~Le(call.args.prev_withheld_tax, call.out.value.cumulative_tax_payable)
    /\ call.out.value.tax_this_month = Zero

copies(n, x) == [i \in 1..n |-> x]

ClampedInto(b, x, lo, hi) ==
    /\ x < lo => b = lo
    /\ x > hi => b = hi
    /\ (lo <= x /\ x <= hi) => b = x

income_base(override, gross) == IF override # None THEN override[1] ELSE gross

\* C4: in calc_employee_social and in calc_housing_fund the base used is the
\* income base (the override base if given, else the gross salary) clamped
\* into [floor, cap]: the floor below the floor (zero and negative values
\* included), the cap above the cap, the income base itself in between, the
\* two bounds included.
C4_BaseClamped ==
    /\ call.fn = "calc_employee_social" =>
         ClampedInto(call.out.base, income_base(call.args.si_base, call.args.gross),
                     cfg.si_floor, cfg.si_cap)
    /\ call.fn = "calc_housing_fund" =>
         ClampedInto(call.out.base, income_base(call.args.hf_base, call.args.gross),
                     cfg.hf_floor, cfg.hf_cap)

\* a negative gross salary clamped up to the social-insurance floor
C4_Witness ==
    /\ call.fn = "calc_employee_social"
    /\ call.args.si_base = None
    /\ call.args.gross < 0
    /\ call.out.base = cfg.si_floor

\* C5: _tax_on_cumulative_taxable returns exactly 0 for every cumulative
\* taxable income <= 0, and the engine's cumulative_tax_payable is 0 whenever
\* cumulative income minus cumulative deductions is <= 0.
C5_NoTaxWithoutIncome ==
    /\ (call.fn = "_tax_on_cumulative_taxable" /\ Le(call.args.cum_taxable, Zero)) =>
         call.out = Zero
    /\ (Returned /\ Le(cumulative_taxable(call.args, cfg), Zero)) =>
         call.out.value.cumulative_tax_payable = Zero

\* the engine called with deductions exceeding the income
C5_Witness ==
    /\ Returned
    /\ ~Le(Zero, cumulative_taxable(call.args, cfg))
    /\ call.out.value.cumulative_tax_payable = Zero

Scenario(month_index) ==
    /\ call.fn = "takehome_shanghai"
    /\ call.args.gross_salary = 30000
    /\ call.args.month_index = month_index
    /\ call.args.hf_rate = Some(70)
    /\ call.args.special_deductions_monthly = 0
    /\ call.args.si_base = None
    /\ call.args.hf_base = None

\* C7: every call that returns has take_home = gross_salary -
\* social_insurance.total - housing_fund.amount - tax_this_month, so take_home
\* + pre_tax_deductions_this_month + tax_this_month = gross_salary; the month 1
\* scenario gives SI 3,150, HF 2,100, tax 592.5 and take-home 24,157.5.
C7_TakeHomeIdentity ==
    /\ Returned =>
         LET r == call.out.value
         IN  /\ r.take_home = Sub(Sub(Sub(r.gross_salary, r.social_insurance.total),
                                      r.housing_fund.amount), r.tax_this_month)
             /\ Add(Add(r.take_home, r.pre_tax_deductions_this_month), r.tax_this_month)
                  = r.gross_salary
    /\ (Scenario(1) /\ Returned /\ call.args.prev_withheld_tax = Zero) =>
         /\ call.out.value.social_insurance.total = D(3150)
         /\ call.out.value.housing_fund.amount = D(2100)
         /\ call.out.value.tax_this_month = Yuan(592, 50)
         /\ call.out.value.take_home = Yuan(24157, 50)

C7_Witness ==
    /\ Scenario(1)
    /\ Returned
    /\ call.args.prev_withheld_tax = Zero
    /\ call.out.value.take_home = Yuan(24157, 50)

\* C8: the flat-assumption call for month 2 of the scenario has cumulative
\* taxable income 39,500 and cumulative_tax_payable 1,430; with
\* prev_withheld_tax omitted (0) tax_this_month is the whole 1,430, more than
\* the 837.5 returned when month 1's 592.5 is given as prev_withheld_tax.
C8_MonthTwoDefaultWithheld ==
    (Scenario(2) /\ Returned /\ call.args.cumulative_prev_pay = None) =>
        /\ call.out.value.cumulative_taxable_income = D(39500)
        /\ call.out.value.cumulative_tax_payable = D(1430)
        /\ call.args.prev_withheld_tax = Zero =>
             call.out.value.tax_this_month = D(1430)
        /\ call.args.prev_withheld_tax = Yuan(592, 50) =>
             /\ call.out.value.tax_this_month = Yuan(837, 50)
             /\ ~Le(D(1430), call.out.value.tax_this_month)

C8_Witness ==
    /\ Scenario(2)
    /\ Returned
    /\ call.args.cumulative_prev_pay = None
    /\ call.args.prev_withheld_tax = Zero
    /\ call.out.value.tax_this_month = D(1430)

----------------------------------------------------------------------------
(* Properties of the chained run, checked under SpecChain *)

\* the tax withheld in months 1..k
total_withheld(k) == sum([i \in 1..k |-> chain[i].tax_this_month])

\* the cumulative tax payable never fell from one month to the next up to k
never_fell(k) ==
    \A j \in 2..k : Le(chain[j - 1].cumulative_tax_payable, chain[j].cumulative_tax_payable)

\* C9 as stated: in the chained run the cumulative_tax_payable of every month
\* k equals the tax withheld in months 1..k, for any sequence of salaries.
C9_PayableEqualsWithheld ==
    \A k \in 1..Len(chain) : chain[k].cumulative_tax_payable = total_withheld(k)

\* C9 amended: the cumulative_tax_payable of month k equals the tax withheld
\* in months 1..k provided the cumulative tax payable has not fallen in any
\* month up to k.
C9_PayableEqualsWithheldUnlessFallen ==
    \A k \in 1..Len(chain) :
        never_fell(k) => chain[k].cumulative_tax_payable = total_withheld(k)

\* four months of rising cumulative tax, tax withheld in each of the last two
C9_Witness ==
    /\ Len(chain) >= 4
    /\ never_fell(Len(chain))
    /\ chain[Len(chain)].tax_this_month # Zero
    /\ chain[Len(chain) - 1].tax_this_month # Zero
    /\ chain[Len(chain)].cumulative_tax_payable = total_withheld(Len(chain))

\* C10: in the chained run the employee is never under-withheld: after every
\* month k the tax withheld in months 1..k is at least the
\* cumulative_tax_payable of month k, also after a low-salary month made the
\* cumulative tax payable fall.
C10_NeverUnderWithheld ==
    \A k \in 1..Len(chain) : Le(chain[k].cumulative_tax_payable, total_withheld(k))

\* a low-salary month made the cumulative tax payable fall below what was
\* withheld
C10_Witness ==
    \E k \in 2..Len(chain) :
        /\ ~Le(chain[k - 1].cumulative_tax_payable, chain[k].cumulative_tax_payable)
        /\ chain[k].tax_this_month = Zero
        /\ ~Le(total_withheld(k), chain[k].cumulative_tax_payable)

====
